---- MODULE Spec2Model ----
(***************************************************************************)
(* A model of server.js, the Swedish business-for-sale scraper:            *)
(* scrapePage (fetch with retry), findBusinessListings (text heuristics),  *)
(* scrapeAllWebsites (the crawl of the configured sites), the /scrape      *)
(* route (aggregation), deduplicateBusinesses and filterByProfitRange.     *)
(*                                                                         *)
(* A JavaScript string is a sequence of one-character strings, so that     *)
(* trimming, case mapping, splitting and the regular expressions of the    *)
(* code are computed character by character.                               *)
(***************************************************************************)
EXTENDS Integers, Sequences, FiniteSets, TLC

VARIABLES
    pc,             \* where the /scrape handler stands
    siteIdx,        \* position of the for-of loop in websiteEntries
    page,           \* the page counter of the inner for loop
    retryCount,     \* the retryCount argument of the running scrapePage call
    pageResult,     \* <<the value scrapePage returned>>, <<>> before the first
    allBusinesses,  \* the listings accumulated for the site being crawled
    results,        \* the results object of scrapeAllWebsites
    response,       \* <<what the route handed to res.json>>, <<>> before
    inflight,       \* the axios.get requests that have not settled
    attempts,       \* history: axios.get calls issued by the current scrapePage call
    waits,          \* history: the retry waits (ms) of the current scrapePage call
    siteTrace,      \* history: the pages requested for the current site
    requested,      \* history: the sites a request was issued for
    raised,         \* history: scrapePage threw to its caller
    pauses,         \* history: the rate-limit pauses (ms) since the last axios.get
    input,          \* the argument of a pure function under check
    output,         \* <<its result>>, <<>> before it ran
    derived         \* history: input[j] was written as a variant of input[derived[j]]

crawlVars == <<pc, siteIdx, page, retryCount, pageResult, allBusinesses, results,
               response, inflight, attempts, waits, siteTrace, requested, raised,
               pauses>>

pureVars == <<input, output, derived>>

vars == <<crawlVars, pureVars>>

----------------------------------------------------------------------------
(* Characters and strings *)

AsciiUpper == <<"A","B","C","D","E","F","G","H","I","J","K","L","M",
                "N","O","P","Q","R","S","T","U","V","W","X","Y","Z">>
AsciiLower == <<"a","b","c","d","e","f","g","h","i","j","k","l","m",
                "n","o","p","q","r","s","t","u","v","w","x","y","z">>
SwedishUpper == <<"Å","Ä","Ö">>
SwedishLower == <<"å","ä","ö">>
Digits == {"0","1","2","3","4","5","6","7","8","9"}
\* \s of a JavaScript regular expression, and what trim() removes
Whitespace == {" ", "\n", "\t"}

Range(f) == {f[i] : i \in DOMAIN f}

Min(a, b) == IF a < b THEN a ELSE b

\* the least and the greatest member of a non-empty set of numbers
MinOf(S) == CHOOSE x \in S : \A y \in S : x <= y
MaxOf(S) == CHOOSE x \in S : \A y \in S : x >= y

\* the least member, or d for the empty set
MinOr(S, d) == IF S = {} THEN d ELSE MinOf(S)

\* the lower-case form of every upper-case letter
LowerOf ==
    LET U == AsciiUpper \o SwedishUpper
        L == AsciiLower \o SwedishLower
    IN  [c \in Range(U) |-> L[CHOOSE i \in DOMAIN U : U[i] = c]]

\* String.prototype.toLowerCase on one character
LowerChar(c) == IF c \in DOMAIN LowerOf THEN LowerOf[c] ELSE c

ToLowerCase(s) == [i \in 1..Len(s) |-> LowerChar(s[i])]

\* \w of a JavaScript regular expression: [A-Za-z0-9_]
WordChars == Range(AsciiUpper) \cup Range(AsciiLower) \cup Digits \cup {"_"}

\* the characters of s that are in kept, in order: s.replace(/[^...]/g, '')
KeepChars(s, kept) == SelectSeq(s, LAMBDA c : c \in kept)

\* s.replace(/\s+/g, ' ')
CollapseWhitespace(s) ==
    LET idx  == [i \in 1..Len(s) |-> i]
        kept == SelectSeq(idx, LAMBDA i :
                    s[i] \notin Whitespace \/ i = 1 \/ s[i-1] \notin Whitespace)
    IN  [k \in 1..Len(kept) |->
            IF s[kept[k]] \in Whitespace THEN " " ELSE s[kept[k]]]

\* String.prototype.trim
TrimTo(s, nonWs) ==
    IF nonWs = {} THEN <<>> ELSE SubSeq(s, MinOf(nonWs), MaxOf(nonWs))

Trim(s) == TrimTo(s, {i \in 1..Len(s) : s[i] \notin Whitespace})

\* the literal lit occurs in s at position i (1-based)
MatchesAt(s, i, lit) ==
    /\ i >= 1
    /\ i + Len(lit) - 1 <= Len(s)
    /\ \A k \in 1..Len(lit) : s[i + k - 1] = lit[k]

\* the same, ignoring case (the i flag)
MatchesAtIgnoreCase(s, i, lit) ==
    /\ i >= 1
    /\ i + Len(lit) - 1 <= Len(s)
    /\ \A k \in 1..Len(lit) : LowerChar(s[i + k - 1]) = LowerChar(lit[k])

\* String.prototype.includes
Includes(s, lit) == \E i \in 1..(Len(s) - Len(lit) + 1) : MatchesAt(s, i, lit)

\* the pieces between the cut positions: cuts is a set of positions p, each
\* meaning "a new piece starts at p"; the separator has width sepLen
RECURSIVE PiecesFrom(_, _, _, _)
PiecesFrom(s, start, cuts, sepLen) ==
    LET p == MinOr({q \in cuts : q >= start}, 0)
    IN  IF p = 0 THEN <<SubSeq(s, start, Len(s))>>
        ELSE <<SubSeq(s, start, p - 1)>> \o PiecesFrom(s, p + sepLen, cuts, sepLen)

\* s.split('\n')
SplitLines(s) ==
    PiecesFrom(s, 1, {p \in 1..Len(s) : s[p] = "\n"}, 1)

\* fragments.join('\n')
RECURSIVE JoinLines(_)
JoinLines(fragments) ==
    IF Len(fragments) = 0 THEN <<>>
    ELSE IF Len(fragments) = 1 THEN fragments[1]
    ELSE fragments[1] \o <<"\n">> \o JoinLines(Tail(fragments))

----------------------------------------------------------------------------
(* The site table *)

\* a property read that finds nothing yields undefined
Undefined == "undefined"

Prop(obj, key) == IF key \in DOMAIN obj THEN obj[key] ELSE Undefined

WEBSITES ==
    [exitpartner |->
        [baseUrl    |-> <<"h","t","t","p","s",":","/","/","w","w","w",".","e","x","i","t","p","a","r","t","n","e","r",".","s","e">>,
         listingUrl |-> <<"h","t","t","p","s",":","/","/","w","w","w",".","e","x","i","t","p","a","r","t","n","e","r",".","s","e","/","f","o","r","e","t","a","g","-","t","i","l","l","-","s","a","l","u","/">>,
         pagination |-> <<"?","p","a","g","e","=">>,
         priority   |-> 1,
         maxPages   |-> 8],
     bolagsplatsen |->
        [baseUrl    |-> <<"h","t","t","p","s",":","/","/","w","w","w",".","b","o","l","a","g","s","p","l","a","t","s","e","n",".","s","e">>,
         listingUrl |-> <<"h","t","t","p","s",":","/","/","w","w","w",".","b","o","l","a","g","s","p","l","a","t","s","e","n",".","s","e","/","f","o","r","e","t","a","g","-","t","i","l","l","-","s","a","l","u","/","a","l","l","a","/","a","l","l","a">>,
         pagination |-> <<"?","p","a","g","e","=">>,
         priority   |-> 2,
         maxPages   |-> 5],
     objektvision |->
        [baseUrl    |-> <<"h","t","t","p","s",":","/","/","o","b","j","e","k","t","v","i","s","i","o","n",".","s","e">>,
         listingUrl |-> <<"h","t","t","p","s",":","/","/","o","b","j","e","k","t","v","i","s","i","o","n",".","s","e","/","f","ö","r","e","t","a","g","_","t","i","l","l","_","s","a","l","u">>,
         pagination |-> <<"?","p","a","g","e","=">>,
         priority   |-> 3,
         maxPages   |-> 3],
     smergers |->
        [baseUrl    |-> <<"h","t","t","p","s",":","/","/","w","w","w",".","s","m","e","r","g","e","r","s",".","c","o","m">>,
         listingUrl |-> <<"h","t","t","p","s",":","/","/","w","w","w",".","s","m","e","r","g","e","r","s",".","c","o","m","/","b","u","s","i","n","e","s","s","e","s","-","f","o","r","-","s","a","l","e","-","i","n","-","s","w","e","d","e","n","/","c","4","1","5","t","2","b","/">>,
         pagination |-> <<"?","p","a","g","e","=">>,
         priority   |-> 4,
         maxPages   |-> 3]]

\* Object.entries(WEBSITES): the keys in the order the literal writes them
WebsiteKeys == <<"exitpartner", "bolagsplatsen", "objektvision", "smergers">>

----------------------------------------------------------------------------
(* findBusinessListings *)

\* the split points of /(?=Omsättning|omsätter|Oms\.)/i
BoundaryTokens == <<<<"O","m","s","ä","t","t","n","i","n","g">>,
                    <<"o","m","s","ä","t","t","e","r">>,
                    <<"O","m","s",".">>>>

\* C11 rests on the dot of the third token: this lookahead takes "Oms" alone
IsBoundaryBareOms(s, p) ==
    \E t \in {<<"O","m","s","ä","t","t","n","i","n","g">>,
              <<"o","m","s","ä","t","t","e","r">>,
              <<"O","m","s">>} : MatchesAtIgnoreCase(s, p, t)

IsBoundary(s, p) ==
    \E t \in DOMAIN BoundaryTokens : MatchesAtIgnoreCase(s, p, BoundaryTokens[t])

\* String.prototype.split with a zero-width separator: a new piece starts at
\* every position after the first where the lookahead matches
RECURSIVE SplitBefore(_, _, _)
SplitBefore(s, start, cuts) ==
    LET p == MinOr({q \in cuts : q > start}, 0)
    IN  IF p = 0 THEN <<SubSeq(s, start, Len(s))>>
        ELSE <<SubSeq(s, start, p - 1)>> \o SplitBefore(s, p, cuts)

ListingBlocks(allText) ==
    SplitBefore(allText, 1, {p \in 1..Len(allText) : IsBoundary(allText, p)})

BusinessKeywords == <<<<"f","ö","r","e","t","a","g">>,
                      <<"v","e","r","k","s","a","m","h","e","t">>,
                      <<"b","o","l","a","g">>,
                      <<"b","u","s","i","n","e","s","s">>,
                      <<"t","i","l","l"," ","s","a","l","u">>>>

IsBusiness(block) ==
    LET lowerBlock == ToLowerCase(block)
    IN  \E k \in DOMAIN BusinessKeywords : Includes(lowerBlock, BusinessKeywords[k])

\* the lines of the block that may be its title
TitleCandidates(block) ==
    SelectSeq(SplitLines(block), LAMBDA line :
        /\ Len(Trim(line)) > 10
        /\ ~Includes(line, <<"h","t","t","p">>)
        /\ ~Includes(line, <<"O","m","s","ä","t","t","n","i","n","g">>))

\* what survives .replace(/[^\w\sÅÄÖ-]/g, '')
TitleChars == WordChars \cup Whitespace \cup {"Å", "Ä", "Ö", "-"}

CleanTitle(line) == KeepChars(Trim(line), TitleChars)

FirstCleaned(titleCandidates) ==
    IF Len(titleCandidates) > 0 THEN CleanTitle(titleCandidates[1]) ELSE <<>>

BlockTitle(block) == FirstCleaned(TitleCandidates(block))

\* the characters of the amount class [0-9,.\s]
AmountChars == Digits \cup {",", "."} \cup Whitespace

\* the first position at or after p whose character is outside class, or
\* Len(s) + 1
RunEnd(s, p, class) == MinOr({q \in p..Len(s) : s[q] \notin class}, Len(s) + 1)

\* the first alternative of alts, in the order written, that stands at k
FirstAt(s, k, alts) == MinOf({x \in DOMAIN alts : MatchesAtIgnoreCase(s, k, alts[x])})

\* the positions k > j at which a unit follows a run s[j..k-1] of amount
\* characters
UnitStarts(s, j, units) ==
    {k \in (j+1)..RunEnd(s, j, AmountChars) :
        \E u \in DOMAIN units : MatchesAtIgnoreCase(s, k, units[u])}

\* where [^0-9]* must stop: the first digit at or after a, or Len(s) + 1
FirstDigit(s, a) == MinOr({q \in a..Len(s) : s[q] \in Digits}, Len(s) + 1)

\* the group ([0-9,.\s]+unit) that starts at j and ends with the unit at k
AmountSpan(s, j, k, units) == SubSeq(s, j, k + Len(units[FirstAt(s, k, units)]) - 1)

\* the group taken from the latest of its possible starts, with its longest
\* run: both quantifiers are greedy
AmountFrom(s, starts, units) ==
    IF starts = {} THEN <<>>
    ELSE AmountSpan(s, MaxOf(starts), MaxOf(UnitStarts(s, MaxOf(starts), units)), units)

\* the capture of /keyword[^0-9]*([0-9,.\s]+unit)/i tried with its keyword
\* ending right before position a; <<>> when that attempt fails
AmountAfter(s, a, units) ==
    AmountFrom(s, {j \in a..FirstDigit(s, a) : UnitStarts(s, j, units) # {}}, units)

\* the capture of the attempt at position i: the first keyword, in the order
\* of the alternation, whose attempt succeeds
AmountOf(s, i, ok, keywords, units) ==
    IF ok = {} THEN <<>> ELSE AmountAfter(s, i + Len(keywords[MinOf(ok)]), units)

AmountAt(s, i, keywords, units) ==
    AmountOf(s, i, {w \in DOMAIN keywords :
                       /\ MatchesAtIgnoreCase(s, i, keywords[w])
                       /\ AmountAfter(s, i + Len(keywords[w]), units) # <<>>},
             keywords, units)

FirstAmount(s, hits, keywords, units) ==
    IF hits = {} THEN <<>> ELSE AmountAt(s, MinOf(hits), keywords, units)

\* block.match(regex)[1] for the two amount expressions: the leftmost
\* position whose attempt succeeds; <<>> when match() returns null
MatchAmount(s, keywords, units) ==
    FirstAmount(s, {i \in 1..Len(s) : AmountAt(s, i, keywords, units) # <<>>},
                keywords, units)

RevenueKeywords == <<<<"o","m","s","ä","t","t","n","i","n","g">>,
                     <<"o","m","s">>,
                     <<"r","e","v","e","n","u","e">>>>
RevenueUnits == <<<<"m","i","l","j","o","n","e","r">>, <<"m","k","r">>,
                  <<"m","s","e","k">>, <<"k","r">>>>
ProfitKeywords == <<<<"r","e","s","u","l","t","a","t">>, <<"v","i","n","s","t">>,
                    <<"p","r","o","f","i","t">>, <<"e","b","i","t","d","a">>>>
ProfitUnits == <<<<"%">>, <<"m","i","l","j","o","n","e","r">>, <<"m","k","r">>,
                 <<"m","s","e","k">>>>

NotDisclosed == <<"N","o","t"," ","d","i","s","c","l","o","s","e","d">>

BlockRevenue(block) ==
    LET revenueMatch == MatchAmount(block, RevenueKeywords, RevenueUnits)
    IN  IF revenueMatch # <<>> THEN Trim(revenueMatch) ELSE NotDisclosed

BlockProfit(block) ==
    LET profitMatch == MatchAmount(block, ProfitKeywords, ProfitUnits)
    IN  IF profitMatch # <<>> THEN Trim(profitMatch) ELSE NotDisclosed

Cities == <<<<"S","t","o","c","k","h","o","l","m">>,
            <<"G","ö","t","e","b","o","r","g">>,
            <<"M","a","l","m","ö">>,
            <<"U","p","p","s","a","l","a">>,
            <<"L","i","n","k","ö","p","i","n","g">>,
            <<"Ö","r","e","b","r","o">>,
            <<"V","ä","s","t","e","r","å","s">>,
            <<"N","o","r","r","k","ö","p","i","n","g">>,
            <<"H","e","l","s","i","n","g","b","o","r","g">>,
            <<"J","ö","n","k","ö","p","i","n","g">>,
            <<"U","m","e","å">>,
            <<"S","u","n","d","s","v","a","l","l">>>>

Sweden == <<"S","w","e","d","e","n">>

\* match[1] of /(Stockholm|...|Sundsvall)/i at its leftmost position
CityAt(block, hits) ==
    IF hits = {} THEN <<>>
    ELSE SubSeq(block, MinOf(hits),
                MinOf(hits) + Len(Cities[FirstAt(block, MinOf(hits), Cities)]) - 1)

\* the city the block names first, as the block writes it
LocationOf(locationMatch) ==
    IF locationMatch # <<>> THEN Trim(locationMatch) ELSE Sweden

BlockLocation(block) ==
    LocationOf(CityAt(block, {i \in 1..Len(block) :
        \E c \in DOMAIN Cities : MatchesAtIgnoreCase(block, i, Cities[c])}))

\* block.substring(0, 300) + '...'
BlockDescription(block) ==
    SubSeq(block, 1, Min(300, Len(block))) \o <<".",".",".">>

\* where the address part of /(https?:\/\/[^\s\)]+)/ starts when the
\* expression matches at i, 0 when it does not
LinkBodyStart(s, i) ==
    LET isBody(p) == p <= Len(s) /\ s[p] \notin Whitespace /\ s[p] # ")"
        withS == i + 8
        without == i + 7
    IN  IF ~MatchesAt(s, i, <<"h","t","t","p">>) THEN 0
        ELSE IF MatchesAt(s, i + 4, <<"s">>) /\ MatchesAt(s, i + 5, <<":","/","/">>)
                /\ isBody(withS) THEN withS
        ELSE IF MatchesAt(s, i + 4, <<":","/","/">>) /\ isBody(without) THEN without
        ELSE 0

\* the longest run of address characters from b on ends here
LinkEnd(block, b) ==
    MinOr({q \in b..Len(block) : block[q] \in Whitespace \cup {")"}}, Len(block) + 1) - 1

LinkAt(block, hits, pageUrl) ==
    IF hits = {} THEN pageUrl
    ELSE Trim(SubSeq(block, MinOf(hits),
                     LinkEnd(block, LinkBodyStart(block, MinOf(hits)))))

BlockLink(block, pageUrl) ==
    LinkAt(block, {i \in 1..Len(block) : LinkBodyStart(block, i) # 0}, pageUrl)

\* the object pushed for one block
Listing(block, title, rawScrapedData, websiteConfig) ==
    [title             |-> title,
     company           |-> title,
     location          |-> BlockLocation(block),
     price             |-> "Price on request",
     revenue           |-> BlockRevenue(block),
     profit            |-> BlockProfit(block),
     industry          |-> "Various",
     category          |-> "Business for Sale",
     description       |-> BlockDescription(block),
     link              |-> BlockLink(block, rawScrapedData.url),
     website_source    |-> Prop(websiteConfig, "name"),
     scraped_at        |-> "ISO-8601",
     currency          |-> "SEK",
     extraction_method |-> "text_pattern_match_refined"]

\* the forEach over the blocks; processedText is the set of titles produced
RECURSIVE ProcessBlocks(_, _, _, _, _)

\* C12 rests on the set of titles: this callback does not look into it
VisitBlockUnseen(blocks, title, processedText, businesses, rawScrapedData, websiteConfig) ==
    IF \/ ~IsBusiness(Head(blocks))
       \/ title = <<>>
    THEN ProcessBlocks(Tail(blocks), processedText, businesses,
                       rawScrapedData, websiteConfig)
    ELSE ProcessBlocks(Tail(blocks), processedText \cup {title},
                       Append(businesses,
                              Listing(Head(blocks), title, rawScrapedData, websiteConfig)),
                       rawScrapedData, websiteConfig)

\* the callback for the first of blocks, whose title is title
VisitBlock(blocks, title, processedText, businesses, rawScrapedData, websiteConfig) ==
    IF \/ ~IsBusiness(Head(blocks))
       \/ title = <<>>
       \/ title \in processedText
    THEN ProcessBlocks(Tail(blocks), processedText, businesses,
                       rawScrapedData, websiteConfig)
    ELSE ProcessBlocks(Tail(blocks), processedText \cup {title},
                       Append(businesses,
                              Listing(Head(blocks), title, rawScrapedData, websiteConfig)),
                       rawScrapedData, websiteConfig)

ProcessBlocks(blocks, processedText, businesses, rawScrapedData, websiteConfig) ==
    IF Len(blocks) = 0 THEN businesses
    ELSE VisitBlock(blocks, BlockTitle(Head(blocks)), processedText, businesses,
                    rawScrapedData, websiteConfig)

findBusinessListings(rawScrapedData, websiteConfig) ==
    ProcessBlocks(ListingBlocks(JoinLines(rawScrapedData.text)), {}, <<>>,
                  rawScrapedData, websiteConfig)

----------------------------------------------------------------------------
(* scrapePage: what it collects from a response *)

\* A response body is the sequence of its elements in document order, each
\* with its tag, its href attribute (<<>> when it has none) and its text, and
\* the length of the markup.
SelectedTags == {"h1", "h2", "h3", "h4", "p", "span", "li", "a"}

\* $('a').each(...): the anchors that have both an href and a text
ScrapedLinks(data) ==
    LET anchors == SelectSeq(data.elements, LAMBDA el :
                       el.tag = "a" /\ el.href # <<>> /\ Trim(el.text) # <<>>)
    IN  [i \in 1..Len(anchors) |->
            [text |-> Trim(anchors[i].text), href |-> anchors[i].href]]

\* $('h1, h2, h3, h4, p, span, li, a').map(...).get()
ScrapedText(data) ==
    LET selected == SelectSeq(data.elements, LAMBDA el : el.tag \in SelectedTags)
    IN  [i \in 1..Len(selected) |-> Trim(selected[i].text)]

SuccessResult(website, url, data) ==
    [success     |-> TRUE,
     website     |-> website,
     url         |-> url,
     links       |-> ScrapedLinks(data),
     text        |-> ScrapedText(data),
     html_length |-> data.length]

FailureResult(website, url, message) ==
    [success |-> FALSE,
     website |-> website,
     url     |-> url,
     error   |-> message,
     links   |-> <<>>,
     text    |-> <<>>]

----------------------------------------------------------------------------
(* The responses the sites may give *)

\* a page without a single selected element
BodyEmpty == [elements |-> <<>>, length |-> 0]

\* "Lönsamt bolag i Malmö" / "Omsättning 18 mkr" / "Läs mer om verksamheten"
BodyA ==
    [elements |-> <<
        [tag |-> "div", href |-> <<>>, text |-> <<"M","e","n","y">>],
        [tag |-> "h2", href |-> <<>>,
         text |-> <<" ","L","ö","n","s","a","m","t"," ","b","o","l","a","g"," ","i"," ","M","a","l","m","ö"," ">>],
        [tag |-> "p", href |-> <<>>,
         text |-> <<"O","m","s","ä","t","t","n","i","n","g"," ","1","8"," ","m","k","r">>],
        [tag |-> "a", href |-> <<"/","o","b","j","e","k","t","/","1">>,
         text |-> <<"L","ä","s"," ","m","e","r"," ","o","m"," ","v","e","r","k","s","a","m","h","e","t","e","n">>],
        [tag |-> "a", href |-> <<"/","n","ä","s","t","a">>, text |-> <<>>] >>,
     length |-> 420]

\* "Verkstad till salu, Stockholm" / "Oms. 120 mkr, vinst 8 %" /
\* "Bolaget nås via http://maklare.se/a" / "Omsättning 30 mkr" /
\* "Verkstad till salu, Stockholm" / "omsätter mer" / "åäö åäö åäö bolag"
BodyB ==
    [elements |-> <<
        [tag |-> "h3", href |-> <<>>,
         text |-> <<"V","e","r","k","s","t","a","d"," ","t","i","l","l"," ","s","a","l","u",","," ","S","t","o","c","k","h","o","l","m">>],
        [tag |-> "span", href |-> <<>>,
         text |-> <<"O","m","s","."," ","1","2","0"," ","m","k","r",","," ","v","i","n","s","t"," ","8"," ","%">>],
        [tag |-> "p", href |-> <<>>,
         text |-> <<"B","o","l","a","g","e","t"," ","n","å","s"," ","v","i","a"," ","h","t","t","p",":","/","/","m","a","k","l","a","r","e",".","s","e","/","a">>],
        [tag |-> "li", href |-> <<>>,
         text |-> <<"O","m","s","ä","t","t","n","i","n","g"," ","3","0"," ","m","k","r">>],
        [tag |-> "li", href |-> <<>>,
         text |-> <<"V","e","r","k","s","t","a","d"," ","t","i","l","l"," ","s","a","l","u",","," ","S","t","o","c","k","h","o","l","m">>],
        [tag |-> "li", href |-> <<>>,
         text |-> <<"o","m","s","ä","t","t","e","r"," ","m","e","r">>],
        [tag |-> "li", href |-> <<>>,
         text |-> <<"å","ä","ö"," ","å","ä","ö"," ","å","ä","ö"," ","b","o","l","a","g">>] >>,
     length |-> 510]

\* the listing pages each site serves
SiteBodies ==
    [exitpartner   |-> {BodyA, BodyB},
     bolagsplatsen |-> {BodyB},
     objektvision  |-> {BodyA},
     smergers      |-> {BodyB}]

\* error.message of what the try block of scrapePage may throw: a transport
\* error, a status outside 2xx, a parse error of cheerio.load
ErrorMessages == {"timeout of 25000ms exceeded",
                  "Request failed with status code 503",
                  "parse error"}

----------------------------------------------------------------------------
(* deduplicateBusinesses: the key *)

\* what survives .replace(/[^a-z0-9åäö\s]/g, '')
KeyChars == Range(AsciiLower) \cup Digits \cup Range(SwedishLower) \cup Whitespace

\* C8 rests on the order of the replacements: this key collapses the
\* whitespace before it strips the other characters
NormalizeCollapseFirst(s) ==
    Trim(KeepChars(CollapseWhitespace(ToLowerCase(s)), KeyChars))

\* s.toLowerCase().replace(/[^a-z0-9åäö\s]/g, '').replace(/\s+/g, ' ').trim()
Normalize(s) == Trim(CollapseWhitespace(KeepChars(ToLowerCase(s), KeyChars)))

\* `${normalizedTitle}_${normalizedLocation}`
NormalizedKey(business) ==
    Normalize(business.title) \o <<"_">> \o Normalize(business.location)

----------------------------------------------------------------------------
(* filterByProfitRange: the predicate *)

\* /([0-9,.]*?)\s*(?:miljoner?|mkr|msek)/gi: the lazy group and \s* may both
\* be empty, so the expression matches wherever one of the units stands
MillionUnits == <<<<"m","i","l","j","o","n","e">>, <<"m","k","r">>, <<"m","s","e","k">>>>

MatchesMillions(s) ==
    \E k \in 1..Len(s) : \E u \in DOMAIN MillionUnits :
        MatchesAtIgnoreCase(s, k, MillionUnits[u])

\* /([2-9][0-9]|[1-9][0-9][0-9]+)\s*(?:anställda|employees|personal)/gi
StaffWords == <<<<"a","n","s","t","ä","l","l","d","a">>,
                <<"e","m","p","l","o","y","e","e","s">>,
                <<"p","e","r","s","o","n","a","l">>>>

\* the positions right after a match of [2-9][0-9]|[1-9][0-9][0-9]+ at i
StaffNumberEnds(s, i) ==
    LET digitEnd == RunEnd(s, i, Digits)
        two   == IF digitEnd >= i + 2 /\ s[i] \in (Digits \ {"0", "1"})
                 THEN {i + 2} ELSE {}
        three == IF digitEnd >= i + 3 /\ s[i] # "0"
                 THEN (i + 3)..digitEnd ELSE {}
    IN  two \cup three

MatchesStaff(s) ==
    \E i \in 1..Len(s) : \E e \in StaffNumberEnds(s, i) :
        \E w \in DOMAIN StaffWords :
            MatchesAtIgnoreCase(s, RunEnd(s, e, Whitespace), StaffWords[w])

\* /(lönsam|vinst|ebitda|profitable)/gi
ProfitWords == <<<<"l","ö","n","s","a","m">>, <<"v","i","n","s","t">>,
                 <<"e","b","i","t","d","a">>, <<"p","r","o","f","i","t","a","b","l","e">>>>

MatchesProfitWord(s) ==
    \E i \in 1..Len(s) : \E w \in DOMAIN ProfitWords :
        MatchesAtIgnoreCase(s, i, ProfitWords[w])

\* `${revenue} ${profit} ${description} ${title}`.toLowerCase()
SearchText(business) ==
    ToLowerCase(business.revenue \o <<" ">> \o business.profit \o <<" ">>
                \o business.description \o <<" ">> \o business.title)

\* indicators.some(pattern => searchText.match(pattern))
HasIndicator(business) ==
    LET searchText == SearchText(business)
    IN  \/ MatchesMillions(searchText)
        \/ MatchesStaff(searchText)
        \/ MatchesProfitWord(searchText)

DigitValue(c) == CHOOSE v \in 0..9 :
    <<"0","1","2","3","4","5","6","7","8","9">>[v + 1] = c

RECURSIVE DecimalValue(_)
DecimalValue(ds) ==
    IF Len(ds) = 0 THEN 0
    ELSE 10 * DecimalValue(SubSeq(ds, 1, Len(ds) - 1)) + DigitValue(ds[Len(ds)])

\* parseFloat's NaN, which compares false with every number
NaN == -1

\* the whole part of parseFloat(s) for a string of digits and dots, NaN when
\* the string does not start with a number.  A fraction cannot move the
\* value across a whole bound, so the comparisons with 15 and 100 below are
\* those of the code.
ParseFloatWhole(s) ==
    LET intEnd == RunEnd(s, 1, Digits)
        hasInt == intEnd > 1
        hasFraction == /\ intEnd + 1 <= Len(s)
                       /\ s[intEnd] = "."
                       /\ s[intEnd + 1] \in Digits
    IN  IF hasInt THEN DecimalValue(SubSeq(s, 1, intEnd - 1))
        ELSE IF hasFraction THEN 0
        ELSE NaN

\* parseFloat(business.revenue.replace(/[^0-9.]/g, ''))
RevenueNumber(business) ==
    ParseFloatWhole(KeepChars(business.revenue, Digits \cup {"."}))

\* revenueNumber >= 15 && revenueNumber < 100
InTargetRange(revenueNumber) ==
    revenueNumber # NaN /\ revenueNumber >= 15 /\ revenueNumber < 100

\* the predicate of businesses.filter(...)
PassesFilter(business) ==
    LET hasIndicator == HasIndicator(business)
    IN  IF ~hasIndicator /\ business.revenue # NotDisclosed
           /\ InTargetRange(RevenueNumber(business))
        THEN TRUE
        ELSE hasIndicator

----------------------------------------------------------------------------
(* scrapePage: requests and retries *)

\* if (retryCount < 2)
MaxRetries == 2
\* const waitTime = 2000 * (retryCount + 1)
RetryBaseWaitMs == 2000
\* the pause after a page that had data, and the pause after a site
PagePauseMs == 3000
SitePauseMs == 2000

\* the userAgents pool, one drawn per attempt
UserAgents == {"Windows NT 10.0 Chrome/120", "Macintosh Chrome/120"}

Request(website, url, userAgent) ==
    [website |-> website, url |-> url, userAgent |-> userAgent, timeout |-> 25000]

\* C1 rests on the threshold of the catch block: this one retries once more
OnFetchErrorOneMoreRetry(count) == IF count <= MaxRetries THEN "retry" ELSE "return"

\* C5 rests on the else branch of the catch block: this one rethrows the error
\* when the retries are used up
OnFetchErrorRethrows(count) == IF count < MaxRetries THEN "retry" ELSE "throw"

\* the catch block of scrapePage for an error caught at retryCount: wait and
\* call scrapePage again, or return the failure value
OnFetchError(count) == IF count < MaxRetries THEN "retry" ELSE "return"

WaitTime(count) == RetryBaseWaitMs * (count + 1)

----------------------------------------------------------------------------
(* scrapeAllWebsites *)

\* C6 rests on the comparator: this one sorts by descending priority
ComparePriorityDescending(a, b) == WEBSITES[b].priority - WEBSITES[a].priority

\* the comparator ([,a], [,b]) => a.priority - b.priority
ComparePriority(a, b) == WEBSITES[a].priority - WEBSITES[b].priority

\* Array.prototype.sort, which is stable: an entry goes behind the entries
\* that do not compare greater
InsertEntry(sorted, x) ==
    LET pos == Cardinality({i \in 1..Len(sorted) : ComparePriority(sorted[i], x) <= 0})
    IN  SubSeq(sorted, 1, pos) \o <<x>> \o SubSeq(sorted, pos + 1, Len(sorted))

RECURSIVE SortByPriority(_)
SortByPriority(keys) ==
    IF Len(keys) = 0 THEN <<>>
    ELSE InsertEntry(SortByPriority(SubSeq(keys, 1, Len(keys) - 1)), keys[Len(keys)])

websiteEntries == SortByPriority(WebsiteKeys)

ToDecimal(n) ==
    LET d == <<"0","1","2","3","4","5","6","7","8","9">>
    IN  IF n < 10 THEN <<d[n + 1]>> ELSE <<d[(n \div 10) + 1], d[(n % 10) + 1]>>

\* C16 rests on the test page === 1: without it page 1 has the query too
PageUrlAlwaysPaginated(config, n) ==
    config.listingUrl \o config.pagination \o ToDecimal(n)

\* page === 1 ? config.listingUrl : `${config.listingUrl}${config.pagination}${page}`
PageUrl(config, n) ==
    IF n = 1 THEN config.listingUrl
    ELSE config.listingUrl \o config.pagination \o ToDecimal(n)

\* C3 rests on the test of the page loop: this one looks at success alone
HasDataIgnoresContent(r) == r.success

\* C18 rests on the failure value taking the else branch: this one goes on
\* to the next page whatever came back
HasDataWhateverCameBack(r) == TRUE

\* pageResult.success && (pageResult.links.length > 0 || pageResult.text.length > 0)
HasData(r) == r.success /\ (Len(r.links) > 0 \/ Len(r.text) > 0)

\* A JavaScript object with string keys is the sequence of its entries in
\* insertion order; obj[key] = value replaces the entry or adds one at the end.
ObjKeys(obj) == [i \in 1..Len(obj) |-> obj[i].key]

ObjValues(obj) == [i \in 1..Len(obj) |-> obj[i].value]

ObjGet(obj, key) == obj[CHOOSE i \in 1..Len(obj) : obj[i].key = key].value

ObjSet(obj, key, value) ==
    IF \E i \in 1..Len(obj) : obj[i].key = key
    THEN [i \in 1..Len(obj) |->
            IF obj[i].key = key THEN [key |-> key, value |-> value] ELSE obj[i]]
    ELSE Append(obj, [key |-> key, value |-> value])

Null == "null"

InitialResults ==
    [success    |-> TRUE,
     scraped_at |-> "ISO-8601",
     websites   |-> <<>>,
     summary    |-> [total_businesses |-> 0, successful_sites |-> 0, failed_sites |-> 0]]

CeilDiv(a, b) == (a + b - 1) \div b

\* Math.ceil(length / (number of listings whose link is the listing URL || 1))
PagesScraped(businesses, config) ==
    LET own == Len(SelectSeq(businesses, LAMBDA b : b.link = config.listingUrl))
    IN  IF Len(businesses) > 0
        THEN CeilDiv(Len(businesses), IF own = 0 THEN 1 ELSE own)
        ELSE 0

\* the end of the try block: the site's entry and the counters
\* C17 rests on results.summary.total_businesses += allBusinesses.length:
\* this one leaves the total alone
RecordSiteSuccessKeepsTotal(res, websiteName, config, businesses) ==
    [res EXCEPT
        !.websites = ObjSet(@, websiteName,
            [success       |-> TRUE,
             url           |-> config.listingUrl,
             count         |-> Len(businesses),
             businesses    |-> businesses,
             error         |-> Null,
             pages_scraped |-> PagesScraped(businesses, config)]),
        !.summary.successful_sites = @ + 1]

\* the end of the try block
RecordSiteSuccess(res, websiteName, config, businesses) ==
    [res EXCEPT
        !.websites = ObjSet(@, websiteName,
            [success       |-> TRUE,
             url           |-> config.listingUrl,
             count         |-> Len(businesses),
             businesses    |-> businesses,
             error         |-> Null,
             pages_scraped |-> PagesScraped(businesses, config)]),
        !.summary.successful_sites = @ + 1,
        !.summary.total_businesses = @ + Len(businesses)]

\* C4 rests on the catch block writing the site's entry: this one only counts
RecordSiteFailureCountsOnly(res, websiteName, config, message) ==
    [res EXCEPT !.summary.failed_sites = @ + 1]

\* the catch block
RecordSiteFailure(res, websiteName, config, message) ==
    [res EXCEPT
        !.websites = ObjSet(@, websiteName,
            [success    |-> FALSE,
             url        |-> config.listingUrl,
             count      |-> 0,
             businesses |-> <<>>,
             error      |-> message]),
        !.summary.failed_sites = @ + 1]

----------------------------------------------------------------------------
(* Bounds of the model *)

\* a site serves listing pages up to this page number; a page behind it comes
\* back without elements or fails
MaxDataPages == 3

\* what a successful axios.get of page n of a site may deliver
BodiesOfPage(website, n) ==
    IF n <= MaxDataPages THEN SiteBodies[website] \cup {BodyEmpty} ELSE {BodyEmpty}

----------------------------------------------------------------------------
(* Tables of the pure functions over the values the crawl can meet.  TLC
   evaluates a constant once, so an action looks a value up instead of
   running the character loops again; a value outside a table is computed. *)

CrawlResults ==
    UNION {{SuccessResult(k, PageUrl(WEBSITES[k], n), b) :
                n \in 1..MaxDataPages, b \in SiteBodies[k]} : k \in Range(WebsiteKeys)}

ListingsTable == [r \in CrawlResults |-> findBusinessListings(r, WEBSITES[r.website])]

CrawlListings == UNION {Range(ListingsTable[r]) : r \in CrawlResults}

KeyTable == [b \in CrawlListings |-> NormalizedKey(b)]

PassTable == [b \in CrawlListings |-> PassesFilter(b)]

\* findBusinessListings(pageResult, config) as scrapeAllWebsites calls it
ListingsOfPage(r, config) ==
    IF r \in DOMAIN ListingsTable /\ config = WEBSITES[r.website]
    THEN ListingsTable[r]
    ELSE findBusinessListings(r, config)

----------------------------------------------------------------------------
(* deduplicateBusinesses and filterByProfitRange *)

\* C7 rests on the key: this one leaves the location out
TitleKey(business) == Normalize(business.title)

\* the key computed in the loop body
DedupKey(business) ==
    IF business \in DOMAIN KeyTable THEN KeyTable[business] ELSE NormalizedKey(business)

\* C19 rests on seen.set(key, business): with a map that is never written
\* every listing is pushed
DedupLoopNeverSeen(businesses, seen, deduplicated) == deduplicated \o businesses

\* the for loop; seen holds the keys met so far
RECURSIVE DedupLoop(_, _, _)
DedupLoop(businesses, seen, deduplicated) ==
    IF Len(businesses) = 0 THEN deduplicated
    ELSE LET business == Head(businesses)
             key == DedupKey(business)
         IN  IF key \notin seen
             THEN DedupLoop(Tail(businesses), seen \cup {key},
                            Append(deduplicated, business))
             ELSE DedupLoop(Tail(businesses), seen, deduplicated)

deduplicateBusinesses(businesses) == DedupLoop(businesses, {}, <<>>)

\* the callback of businesses.filter(...)
KeepsBusiness(business) ==
    IF business \in DOMAIN PassTable THEN PassTable[business] ELSE PassesFilter(business)

filterByProfitRange(businesses) == SelectSeq(businesses, KeepsBusiness)

----------------------------------------------------------------------------
(* The /scrape route *)

RECURSIVE ConcatAll(_)
ConcatAll(seqs) ==
    IF Len(seqs) = 0 THEN <<>> ELSE Head(seqs) \o ConcatAll(Tail(seqs))

\* Object.values(results.websites).forEach(site => ... concat(site.businesses))
CollectBusinesses(websites) ==
    ConcatAll([i \in 1..Len(websites) |-> ObjValues(websites)[i].businesses])

BuildResponse(res) ==
    LET all == CollectBusinesses(res.websites)
        uniqueBusinesses == deduplicateBusinesses(all)
        filteredBusinesses == filterByProfitRange(uniqueBusinesses)
    IN  [success    |-> TRUE,
         scraped_at |-> res.scraped_at,
         summary    |->
            [total_businesses           |-> res.summary.total_businesses,
             successful_sites           |-> res.summary.successful_sites,
             failed_sites               |-> res.summary.failed_sites,
             total_unique_businesses    |-> Len(uniqueBusinesses),
             businesses_in_target_range |-> Len(filteredBusinesses),
             deduplication_removed      |-> Len(all) - Len(uniqueBusinesses)],
         websites   |-> res.websites,
         pages      |-> <<[url        |-> "Swedish Business Listings - Combined",
                           content    |-> "Aggregated data from major Swedish business-for-sale websites",
                           businesses |-> filteredBusinesses]>>,
         details    |-> filteredBusinesses]

----------------------------------------------------------------------------
(* The run of one GET /scrape *)

CurrentSite == websiteEntries[siteIdx]

CurrentConfig == WEBSITES[CurrentSite]

\* how a page of the site ended: "failure" is the failure value, "empty" a
\* success with no link and no text
Outcome(r) ==
    IF ~r.success THEN "failure"
    ELSE IF Len(r.links) = 0 /\ Len(r.text) = 0 THEN "empty"
    ELSE "data"

MarkLast(trace, outcome) == [trace EXCEPT ![Len(trace)].outcome = outcome]

Init ==
    /\ pc = "idle"
    /\ siteIdx = 0
    /\ page = 0
    /\ retryCount = 0
    /\ pageResult = <<>>
    /\ allBusinesses = <<>>
    /\ results = InitialResults
    /\ response = <<>>
    /\ inflight = {}
    /\ attempts = 0
    /\ waits = <<>>
    /\ siteTrace = <<>>
    /\ requested = {}
    /\ raised = FALSE
    /\ pauses = <<>>
    /\ input = <<>>
    /\ output = <<>>
    /\ derived = <<>>

\* app.get('/scrape', ...) calls scrapeAllWebsites: results is created and the
\* entries are sorted
HandleScrape ==
    /\ pc = "idle"
    /\ results' = InitialResults
    /\ siteIdx' = 1
    /\ pc' = "site_loop"
    /\ UNCHANGED <<page, retryCount, pageResult, allBusinesses, response, inflight,
                   attempts, waits, siteTrace, requested, raised, pauses, pureVars>>

\* for (const [websiteName, config] of websiteEntries): the next site, or the
\* return of results to the route
NextSite ==
    /\ pc = "site_loop"
    /\ IF siteIdx <= Len(websiteEntries)
       THEN /\ allBusinesses' = <<>>
            /\ page' = 1
            /\ siteTrace' = <<>>
            /\ pc' = "page_loop"
       ELSE /\ pc' = "respond"
            /\ UNCHANGED <<allBusinesses, page, siteTrace>>
    /\ UNCHANGED <<siteIdx, retryCount, pageResult, results, response, inflight,
                   attempts, waits, requested, raised, pauses, pureVars>>

\* for (let page = 1; page <= config.maxPages; page++): scrapePage is called
\* with retryCount 0 and issues its axios.get, or the loop ends
NextPage ==
    /\ pc = "page_loop"
    /\ IF page <= CurrentConfig.maxPages
       THEN \E ua \in UserAgents :
            LET url == PageUrl(CurrentConfig, page)
            IN  /\ retryCount' = 0
                /\ inflight' = inflight \cup {Request(CurrentSite, url, ua)}
                /\ attempts' = 1
                /\ waits' = <<>>
                /\ siteTrace' = Append(siteTrace,
                                    [page |-> page, url |-> url, outcome |-> "pending"])
                /\ requested' = requested \cup {CurrentSite}
                /\ pauses' = <<>>
                /\ pc' = "await_get"
       ELSE /\ pc' = "site_record"
            /\ UNCHANGED <<retryCount, inflight, attempts, waits, siteTrace, requested,
                           pauses>>
    /\ UNCHANGED <<siteIdx, page, pageResult, allBusinesses, results, response,
                   raised, pureVars>>

\* axios.get resolves and cheerio parses the body: scrapePage returns the
\* success value
GetSucceeds ==
    /\ pc = "await_get"
    /\ \E req \in inflight : \E body \in BodiesOfPage(req.website, page) :
        LET r == SuccessResult(req.website, req.url, body)
        IN  /\ inflight' = inflight \ {req}
            /\ pageResult' = <<r>>
            /\ siteTrace' = MarkLast(siteTrace, Outcome(r))
    /\ pc' = "returned"
    /\ UNCHANGED <<siteIdx, page, retryCount, allBusinesses, results, response,
                   attempts, waits, requested, raised, pauses, pureVars>>

\* the try block of scrapePage throws (transport, status or parse error): the
\* catch block retries after a wait, or returns the failure value.  An error
\* that left scrapePage would end the site in the catch block of
\* scrapeAllWebsites.
GetFails ==
    /\ pc = "await_get"
    /\ \E req \in inflight : \E message \in ErrorMessages :
        LET todo == OnFetchError(retryCount)
            r == FailureResult(req.website, req.url, message)
        IN  /\ inflight' = inflight \ {req}
            /\ IF todo = "retry"
               THEN /\ waits' = Append(waits, WaitTime(retryCount))
                    /\ pc' = "backoff"
                    /\ UNCHANGED <<pageResult, siteTrace, results, raised>>
               ELSE IF todo = "return"
               THEN /\ pageResult' = <<r>>
                    /\ siteTrace' = MarkLast(siteTrace, Outcome(r))
                    /\ pc' = "returned"
                    /\ UNCHANGED <<waits, results, raised>>
               ELSE /\ raised' = TRUE
                    /\ results' = RecordSiteFailure(results, CurrentSite,
                                                    CurrentConfig, message)
                    /\ pc' = "site_pause"
                    /\ UNCHANGED <<waits, pageResult, siteTrace>>
    /\ UNCHANGED <<siteIdx, page, retryCount, allBusinesses, response, attempts,
                   requested, pauses, pureVars>>

\* C13 rests on the promise of the wait being resolved by its timer: with
\* new Promise(resolve => setTimeout(() => {}, waitTime)) the call never goes on
BackoffNeverResolves ==
    /\ pc = "backoff"
    /\ FALSE
    /\ UNCHANGED vars

\* the wait of the catch block is over: scrapePage(url, website, retryCount + 1)
BackoffElapsed ==
    /\ pc = "backoff"
    /\ \E ua \in UserAgents :
        inflight' = inflight \cup
            {Request(CurrentSite, PageUrl(CurrentConfig, page), ua)}
    /\ retryCount' = retryCount + 1
    /\ attempts' = attempts + 1
    /\ pauses' = <<>>
    /\ pc' = "await_get"
    /\ UNCHANGED <<siteIdx, page, pageResult, allBusinesses, results, response,
                   waits, siteTrace, requested, raised, pureVars>>

\* pageResult has been read for the last time: the locals of the scrapePage
\* call and its history are dropped
CallIsOver ==
    /\ pageResult' = <<>>
    /\ retryCount' = 0
    /\ attempts' = 0
    /\ waits' = <<>>

\* C15 rests on the await of the 3000 ms timer in the if branch: without it
\* the loop goes straight on to page++
ProcessPageWithoutPause ==
    /\ pc = "returned"
    /\ IF HasData(pageResult[1])
       THEN /\ allBusinesses' =
                 allBusinesses \o ListingsOfPage(pageResult[1], CurrentConfig)
            /\ page' = page + 1
            /\ pc' = "page_loop"
       ELSE /\ pc' = "site_record"
            /\ UNCHANGED <<allBusinesses, page>>
    /\ CallIsOver
    /\ UNCHANGED <<siteIdx, results, response, inflight, siteTrace,
                   requested, raised, pauses, pureVars>>

\* the if of the page loop: the listings of a page with data are added,
\* anything else breaks out of the loop
ProcessPage ==
    /\ pc = "returned"
    /\ IF HasData(pageResult[1])
       THEN /\ allBusinesses' =
                 allBusinesses \o ListingsOfPage(pageResult[1], CurrentConfig)
            /\ pc' = "page_pause"
       ELSE /\ pc' = "site_record"
            /\ UNCHANGED allBusinesses
    /\ CallIsOver
    /\ UNCHANGED <<siteIdx, page, results, response, inflight, siteTrace,
                   requested, raised, pauses, pureVars>>

\* an error is thrown inside the try block of scrapeAllWebsites while the
\* listings of a page are extracted: the catch block records the site as failed
ExtractionThrows ==
    /\ pc = "returned"
    /\ HasData(pageResult[1])
    /\ results' = RecordSiteFailure(results, CurrentSite, CurrentConfig,
                                    "Maximum call stack size exceeded")
    /\ pc' = "site_pause"
    /\ CallIsOver
    /\ UNCHANGED <<siteIdx, page, allBusinesses, response, inflight, siteTrace,
                   requested, raised, pauses, pureVars>>

\* the 3000 ms pause after a page with data is over: page++
PagePauseElapsed ==
    /\ pc = "page_pause"
    /\ page' = page + 1
    /\ pauses' = Append(pauses, PagePauseMs)
    /\ pc' = "page_loop"
    /\ UNCHANGED <<siteIdx, retryCount, pageResult, allBusinesses, results, response,
                   inflight, attempts, waits, siteTrace, requested, raised, pureVars>>

\* after the page loop: the site's entry is written
RecordSite ==
    /\ pc = "site_record"
    /\ results' = RecordSiteSuccess(results, CurrentSite, CurrentConfig, allBusinesses)
    /\ pc' = "site_pause"
    /\ UNCHANGED <<siteIdx, page, retryCount, pageResult, allBusinesses, response,
                   inflight, attempts, waits, siteTrace, requested, raised, pauses,
                   pureVars>>

\* the 2000 ms pause after a site is over
SitePauseElapsed ==
    /\ pc = "site_pause"
    /\ siteIdx' = siteIdx + 1
    /\ pauses' = Append(pauses, SitePauseMs)
    /\ pc' = "site_loop"
    /\ UNCHANGED <<page, retryCount, pageResult, allBusinesses, results, response,
                   inflight, attempts, waits, siteTrace, requested, raised, pureVars>>

\* the route collects, deduplicates, filters and answers
Respond ==
    /\ pc = "respond"
    /\ response' = <<BuildResponse(results)>>
    /\ pc' = "done"
    /\ UNCHANGED <<siteIdx, page, retryCount, pageResult, allBusinesses, results,
                   inflight, attempts, waits, siteTrace, requested, raised, pauses,
                   pureVars>>

Next ==
    \/ HandleScrape
    \/ NextSite
    \/ NextPage
    \/ GetSucceeds
    \/ GetFails
    \/ BackoffElapsed
    \/ ProcessPage
    \/ ExtractionThrows
    \/ PagePauseElapsed
    \/ RecordSite
    \/ SitePauseElapsed
    \/ Respond

Spec == Init /\ [][Next]_vars

\* what a run does once it has started: every step but the arrival of the
\* request
RunStep ==
    \/ NextSite
    \/ NextPage
    \/ GetSucceeds
    \/ GetFails
    \/ BackoffElapsed
    \/ ProcessPage
    \/ ExtractionThrows
    \/ PagePauseElapsed
    \/ RecordSite
    \/ SitePauseElapsed
    \/ Respond

\* The event loop runs what is ready: a timer that was set fires, a request
\* that was sent is answered or fails (at the latest by its 25000 ms timeout),
\* synchronous code goes on.
LiveSpec == Spec /\ WF_vars(RunStep)

----------------------------------------------------------------------------
(* deduplicateBusinesses and filterByProfitRange on their own: the input is
   built listing by listing, then the function runs on it *)

\* the longest input list of deduplicateBusinesses
MaxListings == 3
\* how many listings of an input list are written as variants of earlier ones
MaxVariants == 2
\* the longest input list of filterByProfitRange
MaxFiltered == 2

\* a listing as findBusinessListings builds it, with the fields that the two
\* functions read left open
SampleListing(title, location, revenue, description) ==
    [title             |-> title,
     company           |-> title,
     location          |-> location,
     price             |-> "Price on request",
     revenue           |-> revenue,
     profit            |-> NotDisclosed,
     industry          |-> "Various",
     category          |-> "Business for Sale",
     description       |-> description,
     link              |-> WEBSITES.exitpartner.listingUrl,
     website_source    |-> Undefined,
     scraped_at        |-> "ISO-8601",
     currency          |-> "SEK",
     extraction_method |-> "text_pattern_match_refined"]

DedupTitles == {<<"Ö"," "," ","7">>, <<"B","o">>}
DedupLocations == {<<"U","m","e","å">>, <<"Å","s">>}

DedupSamples ==
    {SampleListing(t, l, NotDisclosed, t \o <<".",".",".">>) :
        t \in DedupTitles, l \in DedupLocations}

\* a character that is neither a letter, a digit nor whitespace
Punctuation == {"-"}

UpperOf ==
    LET U == AsciiUpper \o SwedishUpper
        L == AsciiLower \o SwedishLower
    IN  [c \in Range(L) |-> U[CHOOSE i \in DOMAIN L : L[i] = c]]

\* the letter in its other case
OtherCase(c) ==
    IF c \in DOMAIN LowerOf THEN LowerOf[c]
    ELSE IF c \in DOMAIN UpperOf THEN UpperOf[c]
    ELSE c

\* the strings that differ from s in one step: the case of one letter, one
\* punctuation character more, or one whitespace run one character longer
StringVariants(s) ==
    {[s EXCEPT ![i] = OtherCase(s[i])] : i \in {k \in 1..Len(s) : OtherCase(s[k]) # s[k]}}
    \cup {SubSeq(s, 1, i) \o <<c>> \o SubSeq(s, i + 1, Len(s)) :
            i \in 0..Len(s), c \in Punctuation}
    \cup {SubSeq(s, 1, i) \o <<s[i]>> \o SubSeq(s, i + 1, Len(s)) :
            i \in {k \in 1..Len(s) : s[k] \in Whitespace}}

\* the listings that differ from b in one step of its title or its location
ListingVariants(b) ==
    {[b EXCEPT !.title = t] : t \in StringVariants(b.title)}
    \cup {[b EXCEPT !.location = l] : l \in StringVariants(b.location)}

VariantCount == Cardinality({j \in DOMAIN derived : derived[j] # 0})

AddListing ==
    /\ output = <<>>
    /\ Len(input) < MaxListings
    /\ \E b \in DedupSamples : input' = Append(input, b)
    /\ derived' = Append(derived, 0)
    /\ UNCHANGED <<crawlVars, output>>

AddVariant ==
    /\ output = <<>>
    /\ Len(input) < MaxListings
    /\ VariantCount < MaxVariants
    /\ \E j \in DOMAIN input : \E b \in ListingVariants(input[j]) :
        /\ input' = Append(input, b)
        /\ derived' = Append(derived, j)
    /\ UNCHANGED <<crawlVars, output>>

RunDedup ==
    /\ output = <<>>
    /\ Len(input) > 0
    /\ output' = <<deduplicateBusinesses(input)>>
    /\ UNCHANGED <<crawlVars, input, derived>>

NextDedup ==
    \/ AddListing
    \/ AddVariant
    \/ RunDedup

SpecDedup == Init /\ [][NextDedup]_vars

FilterRevenues == {<<"1","8"," ","m","k","r">>, <<"1","2","0"," ","m","k","r">>, <<"1","8"," ","k","r">>, <<"1","2","0"," ","k","r">>, <<"1","5"," ","k","r">>, <<"1","0","0"," ","k","r">>,
                   NotDisclosed}
FilterDescriptions == {<<"V","e","r","k","s","t","a","d"," ","i"," ","U","m","e","å",".",".",".">>, <<"L","ö","n","s","a","m"," ","v","e","r","k","s","t","a","d",".",".",".">>, <<"V","e","r","k","s","t","a","d",","," ","2","5"," ","a","n","s","t","ä","l","l","d","a",".",".",".">>}

FilterSamples ==
    {SampleListing(<<"V","e","r","k","s","t","a","d">>, Sweden, r, d) :
        r \in FilterRevenues, d \in FilterDescriptions}

AddFilterInput ==
    /\ output = <<>>
    /\ Len(input) < MaxFiltered
    /\ \E b \in FilterSamples : input' = Append(input, b)
    /\ derived' = Append(derived, 0)
    /\ UNCHANGED <<crawlVars, output>>

RunFilter ==
    /\ output = <<>>
    /\ Len(input) > 0
    /\ output' = <<filterByProfitRange(input)>>
    /\ UNCHANGED <<crawlVars, input, derived>>

NextFilter ==
    \/ AddFilterInput
    \/ RunFilter

SpecFilter == Init /\ [][NextFilter]_vars

----------------------------------------------------------------------------
(* Properties of the crawl, checked under Spec *)

\* C1: one call of scrapePage that starts with retryCount 0 issues at most 3
\* requests for its URL, whatever the outcomes; the waits between them are
\* 2000 ms and then 4000 ms, and a call that ends in the failure value has
\* made all 3 requests and waited 6000 ms in total.
C1_AtMostThreeAttempts ==
    /\ attempts <= 3
    /\ Len(waits) <= 2
    /\ \A i \in DOMAIN waits : waits[i] = 2000 * i
    /\ (pc = "returned" /\ ~pageResult[1].success) =>
            /\ attempts = 3
            /\ waits = <<2000, 4000>>
            /\ waits[1] + waits[2] = 6000

\* C1: a call has returned the failure value after its third request
C1_RetriesExhausted ==
    /\ pc = "returned"
    /\ ~pageResult[1].success
    /\ attempts = 3
    /\ waits = <<2000, 4000>>

\* C2: when the first page of a site ends in the failure value, the entry
\* written for the site has success false, an error string and no listings,
\* and the site is counted as failed (as the specification states it).
C2_FirstPageFailureRecordedAsFailed ==
    (pc = "site_pause" /\ siteTrace # <<>> /\ siteTrace[1].outcome = "failure") =>
        LET entry == ObjGet(results.websites, CurrentSite)
        IN  /\ entry.success = FALSE
            /\ entry.error # Null
            /\ entry.businesses = <<>>
            /\ results.summary.failed_sites >= 1

\* C3: the pages of a site are requested in order, and a page whose result is
\* the failure value or has neither links nor text is the last page requested
\* of that site: nothing is in flight for the site after it.
C3_NoPageAfterFailedOrEmpty ==
    /\ \A k \in DOMAIN siteTrace : siteTrace[k].page = k
    /\ \A k \in DOMAIN siteTrace :
            siteTrace[k].outcome \in {"failure", "empty"} =>
                /\ k = Len(siteTrace)
                /\ inflight = {}

\* C3: page 2 of a site that allows three pages or more came back empty, and
\* the site has been recorded
C3_SecondPageEmpty ==
    /\ pc = "site_pause"
    /\ CurrentConfig.maxPages >= 3
    /\ Len(siteTrace) = 2
    /\ siteTrace[1].outcome = "data"
    /\ siteTrace[2].outcome = "empty"

\* C4: when scrapeAllWebsites is over, every configured site has been
\* requested and results.websites holds exactly one entry for each of them.
C4_EverySiteHasOneEntry ==
    pc \in {"respond", "done"} =>
        /\ requested = Range(WebsiteKeys)
        /\ Len(results.websites) = Len(WebsiteKeys)
        /\ Range(ObjKeys(results.websites)) = Range(WebsiteKeys)
        /\ results.summary.successful_sites + results.summary.failed_sites
                = Len(WebsiteKeys)

\* C4: the run is over, a site ended in the catch block and a later site
\* delivered listings
C4_LaterSiteAfterThrow ==
    /\ pc = "done"
    /\ \E i, j \in DOMAIN results.websites :
        /\ i < j
        /\ ~results.websites[i].value.success
        /\ results.websites[j].value.count > 0

\* C5: no error leaves scrapePage: every call returns one value, and the
\* value returned after the last retry failed is the failure value (success
\* false, the error message, no links and no text).
C5_FailureIsReturned ==
    /\ raised = FALSE
    /\ pc = "returned" => Len(pageResult) = 1
    /\ (pc = "returned" /\ ~pageResult[1].success) =>
            /\ retryCount = 2
            /\ pageResult[1].error \in ErrorMessages
            /\ pageResult[1].links = <<>>
            /\ pageResult[1].text = <<>>
            /\ pageResult[1].website = CurrentSite
            /\ pageResult[1].url = PageUrl(CurrentConfig, page)

\* C5: a call returned the failure value for a parse error on its last retry
C5_ParseErrorReturned ==
    /\ pc = "returned"
    /\ retryCount = 2
    /\ ~pageResult[1].success
    /\ pageResult[1].error = "parse error"

\* C6: at most one request is in flight, and a site is requested only when
\* every site of smaller priority number has its entry in results and no
\* request of its own in flight.
C6_OneFetchInPriorityOrder ==
    /\ Cardinality(inflight) <= 1
    /\ \A k \in requested : \A j \in Range(WebsiteKeys) :
            WEBSITES[j].priority < WEBSITES[k].priority =>
                /\ j \in Range(ObjKeys(results.websites))
                /\ \A req \in inflight : req.website # j

\* C6: a page of the site of priority 3 is in flight
C6_ThirdSiteInFlight ==
    \E req \in inflight :
        /\ WEBSITES[req.website].priority = 3
        /\ req.url = PageUrl(WEBSITES[req.website], 2)

\* C10: every listing in a site's entry carries the key of the site in
\* website_source (as the specification states it).
C10_WebsiteSourceIsSiteKey ==
    \A i \in DOMAIN results.websites :
        \A k \in DOMAIN results.websites[i].value.businesses :
            results.websites[i].value.businesses[k].website_source
                = results.websites[i].key

----------------------------------------------------------------------------
(* Properties of deduplicateBusinesses, checked under SpecDedup *)

\* C7: the result of deduplicateBusinesses is the input restricted to the
\* listings that are the first of their normalized (title, location) key, in
\* the order of the input.
C7_FirstOfEachKeyInOrder ==
    output # <<>> =>
        LET firsts == {i \in DOMAIN input : \A j \in 1..(i - 1) :
                          NormalizedKey(input[j]) # NormalizedKey(input[i])}
            nth(k) == CHOOSE i \in firsts : Cardinality({j \in firsts : j < i}) = k - 1
        IN  /\ Len(output[1]) = Cardinality(firsts)
            /\ \A k \in 1..Len(output[1]) : output[1][k] = input[nth(k)]

\* C7: of three listings the second repeats the key of the first and is
\* dropped, the third has another key and is kept behind the first
C7_MiddleListingDropped ==
    /\ output # <<>>
    /\ Len(input) = 3
    /\ NormalizedKey(input[2]) = NormalizedKey(input[1])
    /\ NormalizedKey(input[3]) # NormalizedKey(input[1])
    /\ output[1] = <<input[1], input[3]>>

\* C8: a listing written as a variant of an earlier one (case of a letter, a
\* punctuation character, the length of a whitespace run) has the key of that
\* one, and the result keeps exactly one listing of that key: the first of
\* the input, which stands at or before the earlier one.
C8_VariantsShareKey ==
    \A j \in DOMAIN input : derived[j] # 0 =>
        LET i == derived[j]
            key == NormalizedKey(input[i])
            same == {m \in DOMAIN input : NormalizedKey(input[m]) = key}
            first == CHOOSE m \in same : \A n \in same : m <= n
        IN  /\ i < j
            /\ NormalizedKey(input[j]) = key
            /\ output # <<>> =>
                /\ Cardinality({k \in DOMAIN output[1] :
                                   NormalizedKey(output[1][k]) = key}) = 1
                /\ first <= i
                /\ \E k \in DOMAIN output[1] : output[1][k] = input[first]
                /\ \A k \in DOMAIN output[1] :
                        NormalizedKey(output[1][k]) = key => output[1][k] = input[first]

\* C8: the third listing is a variant of the second, which is a variant of
\* the first, the three are different values and one is kept
C8_ChainOfVariantsKeptOnce ==
    /\ output # <<>>
    /\ Len(input) = 3
    /\ derived = <<0, 1, 2>>
    /\ input[3] # input[1]
    /\ input[3].location # input[2].location
    /\ input[2].title # input[1].title
    /\ output[1] = <<input[1]>>

\* a is b with some elements left out, the others in their order
RECURSIVE IsSubsequence(_, _)
IsSubsequence(a, b) ==
    IF a = <<>> THEN TRUE
    ELSE IF b = <<>> THEN FALSE
    ELSE IF Head(a) = Head(b) THEN IsSubsequence(Tail(a), Tail(b))
    ELSE IsSubsequence(a, Tail(b))

\* C19: the result of deduplicateBusinesses is a subsequence of its input, no
\* two of its listings have the same normalized (title, location) key, and
\* deduplicateBusinesses applied to the result returns the result.
C19_SubsequenceWithDistinctKeys ==
    output # <<>> =>
        /\ IsSubsequence(output[1], input)
        /\ \A i, j \in DOMAIN output[1] :
                i < j => NormalizedKey(output[1][i]) # NormalizedKey(output[1][j])
        /\ deduplicateBusinesses(output[1]) = output[1]

\* C19: the third listing is another writing of the first and has its key,
\* the second has another key: the first two are the result
C19_LaterVariantDropped ==
    /\ output # <<>>
    /\ Len(input) = 3
    /\ input[3] # input[1]
    /\ NormalizedKey(input[3]) = NormalizedKey(input[1])
    /\ NormalizedKey(input[2]) # NormalizedKey(input[1])
    /\ output[1] = <<input[1], input[2]>>

----------------------------------------------------------------------------
(* Properties of filterByProfitRange, checked under SpecFilter *)

\* C9: for a listing without a profitability keyword and without an employee
\* count in its search text, the revenue number decides: the listing is kept
\* exactly when the number lies in [15, 100), so "18 mkr" is kept and
\* "120 mkr" is not (as the specification states it).
C9_RevenueDecidesWithoutKeyword ==
    output # <<>> =>
        \A i \in DOMAIN input :
            LET business == input[i]
                searchText == SearchText(business)
                kept == \E k \in DOMAIN output[1] : output[1][k] = business
            IN  (/\ ~MatchesProfitWord(searchText)
                 /\ ~MatchesStaff(searchText)
                 /\ business.revenue # NotDisclosed)
                => (kept <=> InTargetRange(RevenueNumber(business)))

----------------------------------------------------------------------------
(* findBusinessListings on its own: the text fragments of a page are put
   together, then the function runs on them *)

\* the most fragments a page is built from, one by one
MaxFragments == 3

\* fragments as scrapePage delivers them (trimmed element texts)
Fragments == {<<"O","m","s","ä","t","t","n","i","n","g"," ","2","0"," ","m","k","r"," ","f","ö","r","e","t","a","g"," ","t","i","l","l"," ","s","a","l","u">>,
              <<"o","m","s"," ","5"," ","m","k","r"," ","b","o","l","a","g">>,
              <<"O","m","s","."," ","3"," ","m","k","r">>,
              <<"L","ö","n","s","a","m","t"," ","b","o","l","a","g","-","Ö"," ","i"," ","Å","r","e","!">>,
              <<"*","*","*","*","*","*","*","*","*","*","*">>,
              <<"t","i","l","l"," ","s","a","l","u">>}

\* the fragments of "Foo bar\nOmsättning 20 mkr företag till salu\nBar baz\noms 5 mkr bolag"
ExampleFragments == <<<<"F","o","o"," ","b","a","r">>,
                      <<"O","m","s","ä","t","t","n","i","n","g"," ","2","0"," ","m","k","r"," ","f","ö","r","e","t","a","g"," ","t","i","l","l"," ","s","a","l","u">>,
                      <<"B","a","r"," ","b","a","z">>,
                      <<"o","m","s"," ","5"," ","m","k","r"," ","b","o","l","a","g">>>>

\* the value scrapePage returns for a page of exitpartner with these fragments
PageOf(fragments) ==
    [success     |-> TRUE,
     website     |-> "exitpartner",
     url         |-> WEBSITES.exitpartner.listingUrl,
     links       |-> <<>>,
     text        |-> fragments,
     html_length |-> 0]

AddFragment ==
    /\ output = <<>>
    /\ Len(input) < MaxFragments
    /\ \E f \in Fragments : input' = Append(input, f)
    /\ derived' = Append(derived, 0)
    /\ UNCHANGED <<crawlVars, output>>

LoadExample ==
    /\ output = <<>>
    /\ input = <<>>
    /\ input' = ExampleFragments
    /\ derived' = [i \in DOMAIN ExampleFragments |-> 0]
    /\ UNCHANGED <<crawlVars, output>>

\* the call: listingBlocks is the local of that name, listings what is returned
RunExtract ==
    /\ output = <<>>
    /\ Len(input) > 0
    /\ output' = <<[listingBlocks |-> ListingBlocks(JoinLines(input)),
                    listings      |-> findBusinessListings(PageOf(input),
                                                           WEBSITES.exitpartner)]>>
    /\ UNCHANGED <<crawlVars, input, derived>>

NextExtract ==
    \/ AddFragment
    \/ LoadExample
    \/ RunExtract

SpecExtract == Init /\ [][NextExtract]_vars

----------------------------------------------------------------------------
(* Properties of findBusinessListings, checked under SpecExtract *)

\* C11: the blocks are the text cut at every position after the first where
\* "Omsättning", "omsätter" or "Oms." starts, whatever the case; so the text
\* "Foo bar\nOmsättning 20 mkr företag till salu\nBar baz\noms 5 mkr bolag" has
\* exactly 2 blocks, the first ending right before "Omsättning" and the second
\* running to the end of the text ("oms" without a dot starts no block).
C11_BlocksStartAtTokens ==
    output # <<>> =>
        LET blocks == output[1].listingBlocks
            allText == JoinLines(input)
            startOf(k) == 1 + Len(ConcatAll(SubSeq(blocks, 1, k - 1)))
        IN  /\ ConcatAll(blocks) = allText
            /\ {startOf(k) : k \in 2..Len(blocks)}
                    = {p \in 2..Len(allText) : IsBoundary(allText, p)}
            /\ \A k \in 2..Len(blocks) : Len(blocks[k]) > 0
            /\ input = ExampleFragments =>
                    blocks = <<<<"F","o","o"," ","b","a","r","\n">>,
                               <<"O","m","s","ä","t","t","n","i","n","g"," ","2","0"," ","m","k","r"," ","f","ö","r","e","t","a","g"," ","t","i","l","l"," ","s","a","l","u","\n","B","a","r"," ","b","a","z","\n","o","m","s"," ","5"," ","m","k","r"," ","b","o","l","a","g">>>>

\* C11: the example text has been segmented
C11_ExampleSegmented ==
    /\ input = ExampleFragments
    /\ output # <<>>
    /\ Len(output[1].listingBlocks) = 2

\* C11: the example text has exactly 2 blocks, the first ending right before
\* "Omsättning" and the second right before "oms" (as the specification
\* states it).
C11_SecondBlockEndsBeforeOms ==
    (input = ExampleFragments /\ output # <<>>) =>
        output[1].listingBlocks
            = <<<<"F","o","o"," ","b","a","r","\n">>,
                <<"O","m","s","ä","t","t","n","i","n","g"," ","2","0"," ","m","k","r"," ","f","ö","r","e","t","a","g"," ","t","i","l","l"," ","s","a","l","u","\n","B","a","r"," ","b","a","z","\n">>>>

\* C12: the listings of one call have non-empty titles that differ from each
\* other, one listing for each non-empty cleaned title of the business blocks:
\* a block whose title is empty or was produced before yields none.
C12_TitlesNonEmptyAndDistinct ==
    output # <<>> =>
        LET listings == output[1].listings
            blocks == output[1].listingBlocks
            titled == {k \in DOMAIN blocks :
                          IsBusiness(blocks[k]) /\ BlockTitle(blocks[k]) # <<>>}
        IN  /\ \A k \in DOMAIN listings : listings[k].title # <<>>
            /\ \A j, k \in DOMAIN listings : listings[j].title = listings[k].title => j = k
            /\ {listings[k].title : k \in DOMAIN listings}
                    = {BlockTitle(blocks[k]) : k \in titled}
            /\ Len(listings) = Cardinality({BlockTitle(blocks[k]) : k \in titled})

\* C12: two business blocks of a page have the same title and the page
\* yields one listing
C12_RepeatedTitleDropped ==
    /\ output # <<>>
    /\ Len(output[1].listings) = 1
    /\ \E j, k \in DOMAIN output[1].listingBlocks :
        /\ j < k
        /\ IsBusiness(output[1].listingBlocks[j])
        /\ IsBusiness(output[1].listingBlocks[k])
        /\ BlockTitle(output[1].listingBlocks[j]) # <<>>
        /\ BlockTitle(output[1].listingBlocks[j]) = BlockTitle(output[1].listingBlocks[k])

\* C14: the title of a business block is its first candidate line, trimmed,
\* with the word characters, the whitespace and the letters å, ä, ö of both
\* cases kept and every other character removed (as the specification states
\* it).
C14_TitleKeepsSwedishLetters ==
    output # <<>> =>
        \A k \in DOMAIN output[1].listingBlocks :
            LET block == output[1].listingBlocks[k]
                titleCandidates == TitleCandidates(block)
                expected == KeepChars(Trim(titleCandidates[1]),
                                WordChars \cup Whitespace
                                \cup Range(SwedishUpper) \cup Range(SwedishLower))
            IN  (IsBusiness(block) /\ Len(titleCandidates) > 0 /\ expected # <<>>) =>
                    \E j \in DOMAIN output[1].listings :
                        output[1].listings[j].title = expected

\* the entry of results.websites written last
LastEntry == results.websites[Len(results.websites)].value

\* how the last page requested for the site ended
LastOutcome == siteTrace[Len(siteTrace)].outcome

\* C15 (as the code has it): between the pages of a site lies the 3000 ms
\* pause and nothing else; a site is followed by exactly one 2000 ms pause
\* before the next site or the return, preceded by the 3000 ms pause when the
\* listings of its last page were taken in, and by no pause when that page
\* was a failure or empty or when the extraction of its listings threw; no
\* rate-limit pause lies inside the call of scrapePage.
C15_PausesAsPlaced ==
    /\ (pc = "page_loop" /\ page > 1) =>
            /\ LastOutcome = "data"
            /\ pauses = <<PagePauseMs>>
    /\ (pc = "site_record") =>
            pauses = IF LastOutcome = "data" THEN <<PagePauseMs>> ELSE <<>>
    /\ (pc \in {"site_loop", "respond"} /\ siteIdx > 1) =>
            pauses = IF LastOutcome = "data" /\ LastEntry.success
                     THEN <<PagePauseMs, SitePauseMs>>
                     ELSE <<SitePauseMs>>
    /\ (pc = "page_loop" /\ page = 1 /\ siteIdx > 1) =>
            pauses \in {<<PagePauseMs, SitePauseMs>>, <<SitePauseMs>>}
    /\ (pc \in {"await_get", "backoff", "returned", "page_pause"}) => pauses = <<>>

\* C15: the next site is about to be fetched after a site whose page had
\* data and whose extraction threw: only the 2000 ms pause was taken
C15_ThrowSkipsPagePause ==
    /\ pc = "site_loop"
    /\ siteIdx \in 2..Len(websiteEntries)
    /\ LastOutcome = "data"
    /\ ~LastEntry.success
    /\ pauses = <<SitePauseMs>>

\* C15 (as stated): whenever a further fetch is about to be issued after a
\* page that yielded data, a 3000 ms pause has been taken since that page
C15_PauseAfterEveryDataPage ==
    (/\ \/ pc = "page_loop" /\ page \in 2..CurrentConfig.maxPages
        \/ pc = "site_loop" /\ siteIdx \in 2..Len(websiteEntries)
     /\ LastOutcome = "data")
        => PagePauseMs \in Range(pauses)

\* the site whose pages siteTrace holds: the site being crawled, or the one
\* crawled last when the loop stands between two sites
TraceConfig ==
    WEBSITES[websiteEntries[IF pc \in {"site_loop", "respond", "done"}
                            THEN siteIdx - 1 ELSE siteIdx]]

\* C16: the pages requested for a site are 1, 2, 3, ... without a gap and not
\* beyond maxPages; page 1 is requested at the listing URL itself, page n >= 2
\* at the listing URL followed by the pagination parameter and n in decimal;
\* every request in flight, a retry included, is for the page the loop is at.
C16_PagesInOrder ==
    siteTrace # <<>> =>
        /\ Len(siteTrace) <= TraceConfig.maxPages
        /\ \A k \in DOMAIN siteTrace :
            /\ siteTrace[k].page = k
            /\ siteTrace[k].url =
                    IF k = 1 THEN TraceConfig.listingUrl
                    ELSE TraceConfig.listingUrl \o TraceConfig.pagination \o ToDecimal(k)
        /\ \A req \in inflight :
            /\ page = Len(siteTrace)
            /\ req.url = siteTrace[page].url

\* C16: the last page a site allows is being requested again after an error,
\* and the pages before it were requested in turn
C16_RetryOfLastAllowedPage ==
    /\ pc = "await_get"
    /\ retryCount > 0
    /\ page = CurrentConfig.maxPages
    /\ Len(siteTrace) = page
    /\ inflight # {}

RECURSIVE SumOfCounts(_)
SumOfCounts(entries) ==
    IF entries = <<>> THEN 0
    ELSE entries[1].value.count + SumOfCounts(Tail(entries))

\* the sites whose processing is over: the loop has written their entry
SitesProcessed ==
    IF pc \in {"idle", "site_loop", "respond", "done"} THEN MaxOf({0, siteIdx - 1})
    ELSE IF pc = "site_pause" THEN siteIdx
    ELSE siteIdx - 1

\* C17: in every state of the run successful_sites + failed_sites is the
\* number of sites processed so far, each counter is the number of entries of
\* its kind, and total_businesses is the sum of count over the entries
\* written; in the response deduplication_removed is total_businesses minus
\* total_unique_businesses and not negative, businesses_in_target_range is at
\* most total_unique_businesses, and the three counters of the run are passed
\* on unchanged.
C17_SummaryAddsUp ==
    /\ results.summary.successful_sites + results.summary.failed_sites = SitesProcessed
    /\ Len(results.websites) = SitesProcessed
    /\ results.summary.successful_sites =
            Cardinality({i \in DOMAIN results.websites : results.websites[i].value.success})
    /\ results.summary.total_businesses = SumOfCounts(results.websites)
    /\ pc = "done" =>
            /\ Len(response) = 1
            /\ response[1].summary.total_businesses = results.summary.total_businesses
            /\ response[1].summary.successful_sites = results.summary.successful_sites
            /\ response[1].summary.failed_sites = results.summary.failed_sites
            /\ response[1].summary.deduplication_removed =
                    response[1].summary.total_businesses
                        - response[1].summary.total_unique_businesses
            /\ response[1].summary.deduplication_removed >= 0
            /\ response[1].summary.businesses_in_target_range
                    <= response[1].summary.total_unique_businesses

\* C17: the route has answered a run in which a site failed, listings were
\* found, duplicates were removed and a listing was filtered out
C17_AnsweredWithDuplicates ==
    /\ pc = "done"
    /\ response[1].summary.failed_sites > 0
    /\ response[1].summary.deduplication_removed > 0
    /\ response[1].summary.businesses_in_target_range
            < response[1].summary.total_unique_businesses

\* the axios.get calls the site can have had so far: three for every page
\* whose call is over, and those of the running call
GetsOfSiteAtMost ==
    IF pc \in {"await_get", "backoff", "returned"}
    THEN 3 * (Len(siteTrace) - 1) + attempts
    ELSE 3 * Len(siteTrace)

\* a step that issues an axios.get enters a new page in the trace with one
\* attempt or adds one attempt to the running call; attempts start again only
\* when a call is over, and the trace only when the loop takes the next site
GetIsAccounted ==
    /\ (inflight' \ inflight # {}) =>
            \/ /\ siteTrace' = Append(siteTrace, siteTrace'[Len(siteTrace')])
               /\ attempts' = 1
            \/ /\ siteTrace' = siteTrace
               /\ attempts' = attempts + 1
    /\ (attempts' < attempts) => (attempts' = 0 /\ pc = "returned")
    /\ (Len(siteTrace') < Len(siteTrace)) => (pc = "site_loop")

\* C18: every axios.get is the first one of a page newly entered in the
\* site's trace or a retry counted by the running call, which has at most 3;
\* the trace has at most maxPages pages: so a site has at most 3 x maxPages
\* fetch attempts.  A page that ended with the failure value (retries
\* exhausted, 3 attempts) is the last page of the trace, so there is at most
\* one such page per site.
C18_AttemptsBounded ==
    /\ []((siteTrace # <<>>) =>
            /\ attempts <= 3
            /\ Len(siteTrace) <= TraceConfig.maxPages
            /\ GetsOfSiteAtMost <= 3 * TraceConfig.maxPages
            /\ \A k \in DOMAIN siteTrace :
                    (siteTrace[k].outcome = "failure") => (k = Len(siteTrace))
            /\ ((pc = "returned" /\ LastOutcome = "failure") => (attempts = 3)))
    /\ [][GetIsAccounted]_vars

\* C18: the last page a site allows has ended with its retries exhausted
\* after the pages before it delivered data
C18_LastAllowedPageExhausted ==
    /\ pc = "returned"
    /\ ~pageResult[1].success
    /\ attempts = 3
    /\ Len(siteTrace) = CurrentConfig.maxPages
    /\ \A k \in 1..(Len(siteTrace) - 1) : siteTrace[k].outcome = "data"

----------------------------------------------------------------------------
(* Properties of the crawl, checked under LiveSpec *)

\* what is left of the call of scrapePage: 1 after it, 2 when it has returned,
\* and two more for every retry that may still come
StageRank ==
    CASE pc = "page_pause" -> 1
      [] pc = "returned"   -> 2
      [] pc = "backoff"    -> 2 + 2 * (MaxRetries - retryCount)
      [] pc = "await_get"  -> 3 + 2 * (MaxRetries - retryCount)
      [] OTHER             -> 4 + 2 * MaxRetries

PageWeight == 5 + 2 * MaxRetries

\* what is left of the current site
SiteRank ==
    CASE pc = "site_pause"  -> 1
      [] pc = "site_record" -> 2
      [] OTHER -> 2 + PageWeight * (CurrentConfig.maxPages + 1 - page) + StageRank

SiteWeight ==
    4 + PageWeight * (MaxOf({WEBSITES[k].maxPages : k \in Range(WebsiteKeys)}) + 1)

\* what is left of the run: it is 0 when the route has answered
RunRank ==
    CASE pc = "done"      -> 0
      [] pc = "respond"   -> 1
      [] pc = "site_loop" -> SiteWeight * (Len(websiteEntries) + 2 - siteIdx) - 1
      [] pc = "idle"      -> SiteWeight * (Len(websiteEntries) + 2)
      [] OTHER            -> SiteWeight * (Len(websiteEntries) + 1 - siteIdx) + SiteRank

\* C13: a run that has started and has not answered can always take a step
\* (it never waits for something that does not come once requests are
\* answered and timers fire), and every step makes a rank smaller that is
\* never negative: so every run comes to its return statement and the route
\* answers.
C13_RunTerminates ==
    /\ [](RunRank >= 0)
    /\ []((pc # "idle" /\ pc # "done") => ENABLED RunStep)
    /\ [][RunRank' < RunRank]_vars

\* C13: a run has returned after a site failed and listings were found
C13_ReturnedAfterFailures ==
    /\ pc = "respond"
    /\ results.summary.failed_sites > 0
    /\ results.summary.total_businesses > 0

====
